---- MODULE Spec2Model ----
(***************************************************************************)
(* bevy-city: the placement-list parser (assets/ipl.rs), the triangle      *)
(* record decoder (renderware-format raw/triangle.rs) and the host systems *)
(* that queue and spawn model meshes (main.rs).                            *)
(*                                                                         *)
(* Three specifications share the module, one per program part:            *)
(*   SpecTri   Triangle::parse applied to a byte slice                     *)
(*   SpecIpl   Ipl::parse applied to a placement-list text                 *)
(*   SpecHost  the bevy app of main.rs (SpecHostFair adds the scheduler's  *)
(*             fairness: every system runs once per frame)                 *)
(* Text is modelled as a sequence of one-character strings, a file as the  *)
(* sequence of its lines, an f32 as sign and magnitude (so that -0.0 and   *)
(* 0.0 differ as bit patterns).                                            *)
(***************************************************************************)
EXTENDS Integers, Sequences, FiniteSets, TLC

VARIABLES
    input,                \* triangle.rs: the &[u8] handed to Triangle::parse
    tri_pc,               \* "call" before Triangle::parse, "done" after
    tri_result,           \* the IResult<&[u8], Triangle> returned
    data,                 \* ipl.rs: the text handed to Ipl::parse, as lines
    ipl_pc,               \* "call", "returned" or "panicked"
    ipl_result,           \* the Ipl returned, or the panic
    host_pc,              \* main.rs: "main", "running" or "panicked"
    ipl_handles,          \* the Vec<Handle<Ipl>> resource of load_maps
    ipl_assets,           \* Assets<Ipl>: handle -> instances
    ev_asset,             \* unread AssetEvent<Ipl> of handle_ipl_events' reader
    desired_asset_meshes, \* DesiredAssetMeshes.0
    asset_meshes,         \* Assets<Dff>: the handles whose model is loaded
    commands              \* the bundles spawned so far, in order

triVars == <<input, tri_pc, tri_result>>
iplVars == <<data, ipl_pc, ipl_result>>
hostVars ==
    <<host_pc, ipl_handles, ipl_assets, ev_asset, desired_asset_meshes,
      asset_meshes, commands>>
vars ==
    <<input, tri_pc, tri_result, data, ipl_pc, ipl_result,
      host_pc, ipl_handles, ipl_assets, ev_asset, desired_asset_meshes,
      asset_meshes, commands>>

Drop(s, n) == SubSeq(s, n + 1, Len(s))

Take(s, n) == SubSeq(s, 1, n)

(***************************************************************************)
(* renderware-format/src/raw/triangle.rs                                   *)
(***************************************************************************)

\* Longest byte slice handed to Triangle::parse.
MaxTriLen == 9

\* Byte values the slices are drawn from.
TriBytes == {0, 1, 255}

\* The on-disk record (vertex2, vertex1, material_id, vertex3) = (5, 3, 7, 9).
ExampleTriangleBytes == <<5, 0, 3, 0, 7, 0, 9, 0>>

TriInputs ==
    UNION {[1..n -> TriBytes] : n \in 0..MaxTriLen}
        \cup {ExampleTriangleBytes, ExampleTriangleBytes \o <<1, 255>>}

\* nom::number::complete::le_u16: Eof on fewer than two bytes, else the
\* little-endian value of the first two and the remaining input.
le_u16(i) ==
    IF Len(i) < 2
    THEN [ok |-> FALSE, rest |-> i, value |-> 0]
    ELSE [ok |-> TRUE, rest |-> Drop(i, 2), value |-> (i[1] + 256 * i[2]) % 65536]

TriErr == [ok |-> FALSE, kind |-> "Eof"]

\* Triangle::parse with the four words bound in canonical field order.
TriangleParsePositional(i) ==
    LET r0 == le_u16(i)
        r1 == le_u16(r0.rest)
        r2 == le_u16(r1.rest)
        r3 == le_u16(r2.rest)
    IN  IF ~r0.ok \/ ~r1.ok \/ ~r2.ok \/ ~r3.ok
        THEN TriErr
        ELSE [ok |-> TRUE, rest |-> r3.rest,
              triangle |-> [vertex1 |-> r0.value, vertex2 |-> r1.value,
                            vertex3 |-> r2.value, material_id |-> r3.value]]

\* Triangle::parse reading three words only: a 6-byte slice succeeds.
TriangleParseThreeWords(i) ==
    LET r0 == le_u16(i)
        r1 == le_u16(r0.rest)
        r2 == le_u16(r1.rest)
        r3 == le_u16(r2.rest)
    IN  IF ~r0.ok \/ ~r1.ok \/ ~r2.ok
        THEN TriErr
        ELSE [ok |-> TRUE, rest |-> r2.rest,
              triangle |-> [vertex1 |-> r1.value, vertex2 |-> r0.value,
                            vertex3 |-> r3.value, material_id |-> r2.value]]

\* Triangle::parse: tuple((le_u16, le_u16, le_u16, le_u16))(input)?, the four
\* values bound to (vertex2, vertex1, material_id, vertex3) in that order.
TriangleParse(i) ==
    LET r0 == le_u16(i)
        r1 == le_u16(r0.rest)
        r2 == le_u16(r1.rest)
        r3 == le_u16(r2.rest)
    IN  IF ~r0.ok \/ ~r1.ok \/ ~r2.ok \/ ~r3.ok
        THEN TriErr
        ELSE [ok |-> TRUE, rest |-> r3.rest,
              triangle |-> [vertex1 |-> r1.value, vertex2 |-> r0.value,
                            vertex3 |-> r3.value, material_id |-> r2.value]]

(***************************************************************************)
(* bevy-city/src/assets/ipl.rs                                             *)
(***************************************************************************)

Digits == <<"0", "1", "2", "3", "4", "5", "6", "7", "8", "9">>

IsDigit(c) == \E k \in 1..10 : Digits[k] = c

DigitVal(c) == (CHOOSE k \in 1..10 : Digits[k] = c) - 1

LowerLetters ==
    {"a", "b", "c", "d", "e", "f", "g", "h", "i", "j", "k", "l", "m",
     "n", "o", "p", "q", "r", "s", "t", "u", "v", "w", "x", "y", "z"}

IsSpace(c) == c \in {" ", "\t"}

RECURSIVE TrimStart(_)
TrimStart(s) ==
    IF s # <<>> /\ IsSpace(Head(s)) THEN TrimStart(Tail(s)) ELSE s

RECURSIVE TrimEnd(_)
TrimEnd(s) ==
    IF s # <<>> /\ IsSpace(s[Len(s)]) THEN TrimEnd(Take(s, Len(s) - 1)) ELSE s

Trim(s) == TrimEnd(TrimStart(s))

\* str::split(','): the pieces between commas, an empty text giving one
\* empty piece.
RECURSIVE SplitComma(_, _)
SplitComma(s, cur) ==
    IF s = <<>> THEN <<cur>>
    ELSE IF Head(s) = "," THEN <<cur>> \o SplitComma(Tail(s), <<>>)
    ELSE SplitComma(Tail(s), Append(cur, Head(s)))

\* common::split_line: the comma-separated, whitespace-trimmed fields of one
\* data line, in order.
split_line(line) ==
    LET parts == SplitComma(line, <<>>)
    IN  [k \in 1..Len(parts) |-> Trim(parts[k])]

InstTag == <<"i", "n", "s", "t">>

EndLine == <<"e", "n", "d">>

IsComment(line) == line # <<>> /\ Head(line) = "#"

\* A section tag line: a lowercase identifier other than the terminator.
IsTag(line) ==
    /\ line # <<>>
    /\ line # EndLine
    /\ \A k \in 1..Len(line) : line[k] \in LowerLetters

NoSection == <<"-">>

\* common::categorise_lines: section tag -> the section's data lines in file
\* order. Comment lines and lines outside any section are ignored; a section
\* still open at the end of the input is a malformed input.
RECURSIVE Categorise(_, _, _)
Categorise(lines, cur, m) ==
    IF lines = <<>>
    THEN [ok |-> cur = NoSection, sections |-> m]
    ELSE LET l == Head(lines)
             rest == Tail(lines)
         IN  IF IsComment(l) THEN Categorise(rest, cur, m)
             ELSE IF cur = NoSection
             THEN IF IsTag(l)
                  THEN Categorise(rest, l,
                           [t \in DOMAIN m \cup {l} |->
                               IF t \in DOMAIN m THEN m[t] ELSE <<>>])
                  ELSE Categorise(rest, cur, m)
             ELSE IF l = EndLine THEN Categorise(rest, NoSection, m)
             ELSE Categorise(rest, cur, [m EXCEPT ![cur] = Append(@, l)])

categorise_lines(d) == Categorise(d, NoSection, <<>>)

\* The decimal value of a run of digits.
RECURSIVE DecimalValue(_)
DecimalValue(s) ==
    IF s = <<>> THEN 0
    ELSE 10 * DecimalValue(Take(s, Len(s) - 1)) + DigitVal(s[Len(s)])

AllDigits(s) == s # <<>> /\ \A k \in 1..Len(s) : IsDigit(s[k])

ParseErr == [ok |-> FALSE]

\* str::parse::<i32>: an optional sign, then digits.
ParseSigned(s) ==
    LET body == IF s # <<>> /\ Head(s) \in {"+", "-"} THEN Tail(s) ELSE s
    IN  IF AllDigits(body) /\ Len(body) <= 9
        THEN [ok |-> TRUE,
              value |-> IF Head(s) = "-" THEN 0 - DecimalValue(body)
                        ELSE DecimalValue(body)]
        ELSE ParseErr

\* str::parse::<u32>: an optional '+', then digits, the value below 2^32.
\* Up to nine digits never overflow; longer texts are not drawn here and
\* are read as overflowing.
ParseU32(s) ==
    LET body == IF s # <<>> /\ Head(s) = "+" THEN Tail(s) ELSE s
    IN  IF AllDigits(body) /\ Len(body) <= 9
        THEN [ok |-> TRUE, value |-> DecimalValue(body)]
        ELSE ParseErr

\* str::parse::<f32> on the texts of the model (an optional sign, then
\* digits): the sign and the magnitude.
ParseF32(s) ==
    LET body == IF s # <<>> /\ Head(s) \in {"+", "-"} THEN Tail(s) ELSE s
    IN  IF AllDigits(body)
        THEN [ok |-> TRUE,
              value |-> [neg |-> Head(s) = "-", mag |-> DecimalValue(body)]]
        ELSE ParseErr

\* f32 multiplication by the flip factor -1.0 or 1.0.
MulFlip(v, flip) == IF flip THEN [v EXCEPT !.neg = ~v.neg] ELSE v

\* The closure parse_vec3 without the axis swap.
parse_vec3_no_swap(p, flip) ==
    LET x == ParseF32(p[1])
        y == ParseF32(p[2])
        z == ParseF32(p[3])
    IN  IF ~x.ok \/ ~y.ok \/ ~z.ok THEN ParseErr
        ELSE [ok |-> TRUE, value |-> <<x.value, y.value, MulFlip(z.value, flip)>>]

\* The closure parse_vec3: Vec3::new(p[0], p[2], p[1] * flip), each parsed
\* and unwrapped.
parse_vec3(p, flip) ==
    LET x == ParseF32(p[1])
        y == ParseF32(p[3])
        z == ParseF32(p[2])
    IN  IF ~x.ok \/ ~y.ok \/ ~z.ok THEN ParseErr
        ELSE [ok |-> TRUE, value |-> <<x.value, y.value, MulFlip(z.value, flip)>>]

\* Quat::from_xyzw with the scalar part first.
from_wxyz(x, y, z, w) == <<w, x, y, z>>

\* Quat::from_xyzw: the four components as given, not normalized.
from_xyzw(x, y, z, w) == <<x, y, z, w>>

Panic(msg) == [ok |-> FALSE, panic |-> msg]

\* The interior id kept as a signed integer.
ParseInteriorSigned(s) == ParseSigned(s)

\* segments[2].parse().unwrap() into the u32 field interior.
ParseInterior(s) == ParseU32(s)

\* The map closure of Ipl::parse on one line of the inst section: the
\* Instance, or the panic of the first slice, index or unwrap that fails.
ParseLine(line) ==
    LET segments == split_line(line)
        n == Len(segments)
    IN  IF n < 9 THEN Panic("slice")
        ELSE
        LET quat == Drop(segments, 9)
            q == [k \in 1..Len(quat) |-> ParseF32(quat[k])]
        IN  IF Len(quat) < 1 THEN Panic("index")
            ELSE IF ~q[1].ok THEN Panic("unwrap")
            ELSE IF Len(quat) < 2 THEN Panic("index")
            ELSE IF ~q[2].ok THEN Panic("unwrap")
            ELSE IF Len(quat) < 3 THEN Panic("index")
            ELSE IF ~q[3].ok THEN Panic("unwrap")
            ELSE IF Len(quat) < 4 THEN Panic("index")
            ELSE IF ~q[4].ok THEN Panic("unwrap")
            ELSE
            LET interior == ParseInterior(segments[3])
                position == parse_vec3(SubSeq(segments, 4, 6), TRUE)
                scale == parse_vec3(SubSeq(segments, 7, 9), FALSE)
            IN  IF ~interior.ok \/ ~position.ok \/ ~scale.ok THEN Panic("unwrap")
                ELSE [ok |-> TRUE,
                      instance |->
                          [model_name |-> segments[2],
                           interior |-> interior.value,
                           position |-> position.value,
                           scale |-> scale.value,
                           rotation |-> from_xyzw(q[1].value, q[2].value,
                                                  q[3].value, q[4].value)]]

\* .iter().map(..).collect() keeping the instances of the lines that parse.
RECURSIVE CollectSkipBad(_)
CollectSkipBad(lines) ==
    IF lines = <<>> THEN [ok |-> TRUE, instances |-> <<>>]
    ELSE LET first == ParseLine(Head(lines))
             rest == CollectSkipBad(Tail(lines))
         IN  IF ~first.ok THEN rest
             ELSE [ok |-> TRUE, instances |-> <<first.instance>> \o rest.instances]

\* .iter().map(..).collect() into a Vec built back to front.
RECURSIVE CollectReversed(_)
CollectReversed(lines) ==
    IF lines = <<>> THEN [ok |-> TRUE, instances |-> <<>>]
    ELSE LET first == ParseLine(Head(lines))
         IN  IF ~first.ok THEN first
             ELSE LET rest == CollectReversed(Tail(lines))
                  IN  IF ~rest.ok THEN rest
                      ELSE [ok |-> TRUE,
                            instances |-> Append(rest.instances, first.instance)]

\* .iter().map(..).collect(): the instances of the lines in order; the first
\* line that panics ends the call.
RECURSIVE Collect(_)
Collect(lines) ==
    IF lines = <<>> THEN [ok |-> TRUE, instances |-> <<>>]
    ELSE LET first == ParseLine(Head(lines))
         IN  IF ~first.ok THEN first
             ELSE LET rest == Collect(Tail(lines))
                  IN  IF ~rest.ok THEN rest
                      ELSE [ok |-> TRUE,
                            instances |-> <<first.instance>> \o rest.instances]

\* sections.get("inst").unwrap_or_default(): a missing section read as empty.
GetInstOrEmpty(sections) ==
    IF InstTag \in DOMAIN sections
    THEN [ok |-> TRUE, lines |-> sections[InstTag]]
    ELSE [ok |-> TRUE, lines |-> <<>>]

\* sections.get("inst").expect("no inst")
GetInst(sections) ==
    IF InstTag \in DOMAIN sections
    THEN [ok |-> TRUE, lines |-> sections[InstTag]]
    ELSE Panic("no inst")

\* Ipl::parse
IplParse(d) ==
    LET cat == categorise_lines(d)
    IN  IF ~cat.ok THEN Panic("malformed input")
        ELSE LET inst == GetInst(cat.sections)
             IN  IF ~inst.ok THEN inst ELSE Collect(inst.lines)

(***************************************************************************)
(* Placement-list texts handed to Ipl::parse                               *)
(***************************************************************************)

\* Most data lines in one inst section.
MaxInstLines == 2

\* A data line: its fields joined by ", " as in the game's files.
RECURSIVE JoinFields(_)
JoinFields(fields) ==
    IF fields = <<>> THEN <<>>
    ELSE IF Len(fields) = 1 THEN fields[1]
    ELSE fields[1] \o <<",", " ">> \o JoinFields(Tail(fields))

\* 1860, ab, 0, -4, 12, 3, 1, 2, 5, 0, -0, 7, 1
FieldsA ==
    << <<"1", "8", "6", "0">>, <<"a", "b">>, <<"0">>,
       <<"-", "4">>, <<"1", "2">>, <<"3">>,
       <<"1">>, <<"2">>, <<"5">>,
       <<"0">>, <<"-", "0">>, <<"7">>, <<"1">> >>

\* 7, lodx, 13, 0, -6, 8, 2, 1, 3, 4, 3, 2, 9
FieldsB ==
    << <<"7">>, <<"l", "o", "d", "x">>, <<"1", "3">>,
       <<"0">>, <<"-", "6">>, <<"8">>,
       <<"2">>, <<"1">>, <<"3">>,
       <<"4">>, <<"3">>, <<"2">>, <<"9">> >>

\* Texts that are no number: a word, the empty field, a lone sign, a number
\* followed by a letter.
BadNumbers == {<<"x">>, <<>>, <<"-">>, <<"1", "x">>}

\* FieldsA with field k (0-based) replaced by text t.
WithField(k, t) == [FieldsA EXCEPT ![k + 1] = t]

\* Lines that deviate from FieldsA in one way: cut to 1..12 fields, the empty
\* line, one field replaced by a text that is no number (a negative interior
\* id included), a fourteenth field added.
VariantLines ==
    {JoinFields(Take(FieldsA, k)) : k \in 1..12}
        \cup {<<>>}
        \cup {JoinFields(WithField(k, <<"x">>)) : k \in 0..12}
        \cup {JoinFields(WithField(k, t)) : k \in {0, 2, 9}, t \in BadNumbers}
        \cup {JoinFields(WithField(2, <<"-", "1">>))}
        \cup {JoinFields(FieldsA \o << <<"9">> >>)}

CommentLine == <<"#", " ", "x">>

CullTag == <<"c", "u", "l", "l">>

PickTag == <<"p", "i", "c", "k">>

\* What precedes the inst section: nothing, a comment and another section
\* with a data line, a data line outside any section.
Prefixes ==
    {<<>>,
     <<CommentLine, CullTag, JoinFields(FieldsB), EndLine>>,
     <<JoinFields(FieldsB)>>}

\* What follows it: nothing, other sections, a section left open.
Suffixes ==
    {<<>>,
     <<CullTag, EndLine, PickTag, JoinFields(FieldsA), EndLine>>,
     <<PickTag, JoinFields(FieldsA)>>}

\* The data lines of the inst section: up to MaxInstLines lines, each
\* FieldsA, FieldsB or one variant line v.
Bodies(v) ==
    UNION {[1..n -> {JoinFields(FieldsA), JoinFields(FieldsB), v}] : n \in 0..MaxInstLines}

\* The inst section around a body: terminated, terminated with a comment
\* among its lines, or left open.
Blocks(body) ==
    {<<InstTag>> \o body \o <<EndLine>>,
     <<InstTag, CommentLine>> \o body \o <<EndLine>>,
     <<InstTag>> \o body}

IplInputs ==
    {p \o s : p \in Prefixes, s \in Suffixes}
        \cup UNION {UNION {{p \o b \o s : p \in Prefixes, s \in Suffixes} :
                              b \in Blocks(body)} :
                       body \in UNION {Bodies(v) : v \in VariantLines}}

(***************************************************************************)
(* bevy-city/src/main.rs                                                   *)
(***************************************************************************)

\* Placement lists load_maps asks the asset server for (MAP_PATHS has 28).
MaxMaps == 2

MapHandles == 1..MaxMaps

UpperLetters ==
    <<"A", "B", "C", "D", "E", "F", "G", "H", "I", "J", "K", "L", "M",
      "N", "O", "P", "Q", "R", "S", "T", "U", "V", "W", "X", "Y", "Z">>

LowerOfUpper ==
    <<"a", "b", "c", "d", "e", "f", "g", "h", "i", "j", "k", "l", "m",
      "n", "o", "p", "q", "r", "s", "t", "u", "v", "w", "x", "y", "z">>

\* u8::to_ascii_lowercase
ToAsciiLower(c) ==
    IF \E k \in 1..26 : UpperLetters[k] = c
    THEN LowerOfUpper[CHOOSE k \in 1..26 : UpperLetters[k] = c]
    ELSE c

\* str::eq_ignore_ascii_case
eq_ignore_ascii_case(a, b) ==
    /\ Len(a) = Len(b)
    /\ \A k \in 1..Len(a) : ToAsciiLower(a[k]) = ToAsciiLower(b[k])

LodPrefix == <<"l", "o", "d">>

\* name.len() > 3 && name[..3].eq_ignore_ascii_case("lod")
IsLod(name) ==
    Len(name) > 3 /\ eq_ignore_ascii_case(Take(name, 3), LodPrefix)

\* format!("models/gta3/{name}.dff")
ModelPath(name) ==
    <<"m", "o", "d", "e", "l", "s", "/", "g", "t", "a", "3", "/">>
        \o name \o <<".", "d", "f", "f">>

\* Transform::from_xyz
from_xyz(x, y, z) == [translation |-> <<x, y, z>>]

\* The entries handle_ipl_events pushes for the instances of one Ipl: none
\* for a name the lod test matches, else (asset_server.load(path),
\* Transform::from_xyz(x, y, z), false).
RECURSIVE PushInstances(_, _)
PushInstances(queue, instances) ==
    IF instances = <<>> THEN queue
    ELSE LET i == Head(instances)
         IN  IF IsLod(i.name)
             THEN PushInstances(queue, Tail(instances))
             ELSE PushInstances(
                      Append(queue,
                             [handle |-> ModelPath(i.name),
                              transform |-> from_xyz(i.pos[1], i.pos[2], i.pos[3]),
                              spawned |-> FALSE]),
                      Tail(instances))

\* The loop of handle_ipl_events over the events read: Created pushes the
\* Ipl's instances, Modified panics, Removed does nothing.
RECURSIVE HandleEvents(_, _, _)
HandleEvents(events, assets, queue) ==
    IF events = <<>> THEN [queue |-> queue, panicked |-> FALSE]
    ELSE LET ev == Head(events)
         IN  IF ev.kind = "Created"
             THEN HandleEvents(Tail(events), assets,
                               PushInstances(queue, assets[ev.handle]))
             ELSE IF ev.kind = "Modified"
             THEN [queue |-> queue, panicked |-> TRUE]
             ELSE HandleEvents(Tail(events), assets, queue)

\* The PbrBundle process_pending_desired_meshes spawns for queue entry k.
PbrBundle(entry, k) ==
    [kind |-> "PbrBundle", mesh |-> entry.handle,
     transform |-> entry.transform, entry |-> k]

\* The loop of process_pending_desired_meshes that spawns whatever is loaded,
\* the spawned flag not looked at.
RECURSIVE ProcessEntriesRespawn(_, _, _, _)
ProcessEntriesRespawn(queue, k, loaded, cmds) ==
    IF k > Len(queue) THEN [queue |-> queue, commands |-> cmds]
    ELSE IF queue[k].handle \in loaded
    THEN ProcessEntriesRespawn([queue EXCEPT ![k].spawned = TRUE], k + 1, loaded,
                               Append(cmds, PbrBundle(queue[k], k)))
    ELSE ProcessEntriesRespawn(queue, k + 1, loaded, cmds)

\* The loop of process_pending_desired_meshes from entry k on: a spawned
\* entry is skipped, an entry whose Dff is loaded is spawned and flagged, any
\* other is left as it is.
RECURSIVE ProcessEntries(_, _, _, _)
ProcessEntries(queue, k, loaded, cmds) ==
    IF k > Len(queue) THEN [queue |-> queue, commands |-> cmds]
    ELSE IF queue[k].spawned
    THEN ProcessEntries(queue, k + 1, loaded, cmds)
    ELSE IF queue[k].handle \in loaded
    THEN ProcessEntries([queue EXCEPT ![k].spawned = TRUE], k + 1, loaded,
                        Append(cmds, PbrBundle(queue[k], k)))
    ELSE ProcessEntries(queue, k + 1, loaded, cmds)

Name_ab == <<"a", "b">>

Name_lod == <<"l", "o", "d">>

Name_LODa == <<"L", "O", "D", "a">>

Name_lodb == <<"l", "o", "d", "b">>

Name_alod == <<"a", "l", "o", "d">>

Name_Lo == <<"L", "o">>

\* The instance lists a loaded placement list may hold, as (name, [x, y, z]).
IplContents ==
    {<< [name |-> Name_ab, pos |-> <<1, 2, 3>>],
        [name |-> Name_LODa, pos |-> <<1, 2, 3>>],
        [name |-> Name_lod, pos |-> <<4, 5, 6>>] >>,
     << [name |-> Name_lodb, pos |-> <<0, 0, 0>>],
        [name |-> Name_alod, pos |-> <<7, 8, 9>>],
        [name |-> Name_Lo, pos |-> <<0, 1, 0>>] >>,
     << >>}

\* DesiredAssetRenderPath: the --path argument less its assets/ prefix.
ViewerPath == <<"a", ".", "d", "f", "f">>

TriIdle == input = <<>> /\ tri_pc = "idle" /\ tri_result = TriErr

IplIdle == data = <<>> /\ ipl_pc = "idle" /\ ipl_result = <<>>

HostIdle ==
    /\ host_pc = "idle"
    /\ ipl_handles = {}
    /\ ipl_assets = <<>>
    /\ ev_asset = <<>>
    /\ desired_asset_meshes = <<>>
    /\ asset_meshes = {}
    /\ commands = <<>>

InitTri ==
    /\ input \in TriInputs
    /\ tri_pc = "call"
    /\ tri_result = TriErr
    /\ IplIdle
    /\ HostIdle

CallTriangleParse ==
    /\ tri_pc = "call"
    /\ tri_result' = TriangleParse(input)
    /\ tri_pc' = "done"
    /\ UNCHANGED <<input, iplVars, hostVars>>

NextTri == CallTriangleParse

SpecTri == InitTri /\ [][NextTri]_vars

InitIpl ==
    /\ data \in IplInputs
    /\ ipl_pc = "call"
    /\ ipl_result = <<>>
    /\ TriIdle
    /\ HostIdle

\* Ipl::parse(data): the Ipl returned, or the panic that ends the call.
CallIplParse ==
    /\ ipl_pc = "call"
    /\ LET r == IplParse(data)
       IN  /\ ipl_pc' = IF r.ok THEN "returned" ELSE "panicked"
           /\ ipl_result' = r
    /\ UNCHANGED <<data, triVars, hostVars>>

NextIpl == CallIplParse

SpecIpl == InitIpl /\ [][NextIpl]_vars

\* main: the app built, DesiredAssetMeshes(vec![]) inserted, no startup
\* system run yet.
InitHost ==
    /\ host_pc = "main"
    /\ ipl_handles = {}
    /\ ipl_assets = <<>>
    /\ ev_asset = <<>>
    /\ desired_asset_meshes = <<>>
    /\ asset_meshes = {}
    /\ commands = <<>>
    /\ TriIdle
    /\ IplIdle

\* The startup system asset_viewer (a --path was given): the asset is queued
\* at (0.0, 0.5, 0.0), a light and a camera are spawned. Coordinates of the
\* host model are in units of 0.5.
asset_viewer ==
    /\ host_pc = "main"
    /\ desired_asset_meshes' =
           Append(desired_asset_meshes,
                  [handle |-> ViewerPath, transform |-> from_xyz(0, 1, 0),
                   spawned |-> FALSE])
    /\ commands' = commands \o <<[kind |-> "PointLightBundle"],
                                 [kind |-> "PerspectiveCameraBundle"]>>
    /\ host_pc' = "running"
    /\ UNCHANGED <<ipl_handles, ipl_assets, ev_asset, asset_meshes, triVars, iplVars>>

\* The startup system load_maps (no --path): every map is asked of the asset
\* server and its handle kept in a resource; a camera is spawned.
load_maps ==
    /\ host_pc = "main"
    /\ ipl_handles' = MapHandles
    /\ commands' = Append(commands, [kind |-> "PerspectiveCameraBundle"])
    /\ host_pc' = "running"
    /\ UNCHANGED <<ipl_assets, ev_asset, desired_asset_meshes, asset_meshes,
                   triVars, iplVars>>

\* The asset server finishes loading a placement list: the Ipl enters
\* Assets<Ipl> and AssetEvent::Created is sent. main never watches for file
\* changes and keeps every handle, so no Modified or Removed event is sent.
IplLoaded(h, instances) ==
    /\ host_pc = "running"
    /\ h \in ipl_handles
    /\ h \notin DOMAIN ipl_assets
    /\ ipl_assets' = [k \in DOMAIN ipl_assets \cup {h} |->
                         IF k = h THEN instances ELSE ipl_assets[k]]
    /\ ev_asset' = Append(ev_asset, [kind |-> "Created", handle |-> h])
    /\ UNCHANGED <<host_pc, ipl_handles, desired_asset_meshes, asset_meshes,
                   commands, triVars, iplVars>>

\* The asset server finishes loading a model some queue entry holds a handle
\* of: the Dff enters Assets<Dff>.
DffLoaded(p) ==
    /\ host_pc = "running"
    /\ \E k \in 1..Len(desired_asset_meshes) : desired_asset_meshes[k].handle = p
    /\ p \notin asset_meshes
    /\ asset_meshes' = asset_meshes \cup {p}
    /\ UNCHANGED <<host_pc, ipl_handles, ipl_assets, ev_asset, desired_asset_meshes,
                   commands, triVars, iplVars>>

\* The system handle_ipl_events, one run: every unread event is handled.
handle_ipl_events ==
    /\ host_pc = "running"
    /\ LET r == HandleEvents(ev_asset, ipl_assets, desired_asset_meshes)
       IN  /\ desired_asset_meshes' = r.queue
           /\ host_pc' = IF r.panicked THEN "panicked" ELSE host_pc
    /\ ev_asset' = <<>>
    /\ UNCHANGED <<ipl_handles, ipl_assets, asset_meshes, commands, triVars, iplVars>>

\* The system process_pending_desired_meshes, one run over the whole queue.
process_pending_desired_meshes ==
    /\ host_pc = "running"
    /\ LET r == ProcessEntries(desired_asset_meshes, 1, asset_meshes, commands)
       IN  /\ desired_asset_meshes' = r.queue
           /\ commands' = r.commands
    /\ UNCHANGED <<host_pc, ipl_handles, ipl_assets, ev_asset, asset_meshes,
                   triVars, iplVars>>

NextHost ==
    \/ asset_viewer
    \/ load_maps
    \/ \E h \in MapHandles : \E instances \in IplContents : IplLoaded(h, instances)
    \/ \E k \in 1..Len(desired_asset_meshes) : DffLoaded(desired_asset_meshes[k].handle)
    \/ handle_ipl_events
    \/ process_pending_desired_meshes

SpecHost == InitHost /\ [][NextHost]_vars

\* The schedule runs every system once per frame.
SpecHostFair ==
    /\ InitHost
    /\ [][NextHost]_vars
    /\ WF_vars(process_pending_desired_meshes)
    /\ WF_vars(handle_ipl_events)

\* The little-endian u16 at byte offset k (0-based) of the input.
WordAt(k) == input[k + 1] + 256 * input[k + 2]

\* C3: on at least 8 bytes Triangle::parse returns vertex1 = w1, vertex2 = w0,
\* vertex3 = w3, material_id = w2 for the four little-endian words w0..w3, and
\* the on-disk record (5, 3, 7, 9) decodes to vertex1 3, vertex2 5, vertex3 9,
\* material_id 7.
C3_FieldOrder ==
    (tri_pc = "done" /\ Len(input) >= 8) =>
        /\ tri_result.ok
        /\ tri_result.triangle =
               [vertex1 |-> WordAt(2), vertex2 |-> WordAt(0),
                vertex3 |-> WordAt(6), material_id |-> WordAt(4)]
        /\ (Take(input, 8) = ExampleTriangleBytes =>
               tri_result.triangle =
                   [vertex1 |-> 3, vertex2 |-> 5, vertex3 |-> 9, material_id |-> 7])

C3_Witness ==
    /\ tri_pc = "done"
    /\ input = ExampleTriangleBytes
    /\ tri_result.ok
    /\ tri_result.triangle.vertex1 = 3

\* C7: on fewer than 8 bytes Triangle::parse returns an error and no Triangle;
\* on n >= 8 bytes it succeeds and the rest is the input without its first 8
\* bytes.
C7_ShortSliceFails ==
    tri_pc = "done" =>
        /\ (Len(input) < 8 => tri_result = TriErr)
        /\ (Len(input) >= 8 =>
               /\ tri_result.ok
               /\ Len(tri_result.rest) = Len(input) - 8
               /\ \A k \in 1..(Len(input) - 8) : tri_result.rest[k] = input[k + 8])

C7_Witness ==
    /\ tri_pc = "done"
    /\ Len(input) = 7
    /\ ~tri_result.ok

(***************************************************************************)
(* Claims about Ipl::parse. The inst section of the text is read off the   *)
(* lines of data directly: every text of IplInputs opens inst at most once *)
(* and closes every section before it.                                     *)
(***************************************************************************)

HasInst == \E i \in 1..Len(data) : data[i] = InstTag

InstStart == CHOOSE i \in 1..Len(data) : data[i] = InstTag

InstClosed == \E j \in (InstStart + 1)..Len(data) : data[j] = EndLine

\* The first terminator after the inst tag, or the end of the text.
InstEnd ==
    IF InstClosed
    THEN CHOOSE j \in (InstStart + 1)..Len(data) :
             /\ data[j] = EndLine
             /\ \A k \in (InstStart + 1)..(j - 1) : data[k] # EndLine
    ELSE Len(data) + 1

NotComment(line) == ~IsComment(line)

\* The data lines of the inst section, in file order.
InstDataLines == SelectSeq(SubSeq(data, InstStart + 1, InstEnd - 1), NotComment)

\* Every section of the text is closed before the text ends.
SectionsClosed == categorise_lines(data).ok

Unsigned(s) == IF s # <<>> /\ Head(s) = "+" THEN Tail(s) ELSE s

Unsign(s) == IF s # <<>> /\ Head(s) \in {"+", "-"} THEN Tail(s) ELSE s

IsUnsignedText(s) == AllDigits(Unsigned(s))

IsFloatText(s) == AllDigits(Unsign(s))

\* The f32 a float text denotes.
FloatOf(s) == [neg |-> Head(s) = "-", mag |-> DecimalValue(Unsign(s))]

Negated(v) == [neg |-> ~v.neg, mag |-> v.mag]

\* Field k (0-based) of a data line.
Field(line, k) == split_line(line)[k + 1]

FieldCount(line) == Len(split_line(line))

\* A data line the parser accepts: 13 fields or more, field 2 an unsigned
\* integer, fields 3..12 floats.
WellFormed(line) ==
    /\ FieldCount(line) >= 13
    /\ IsUnsignedText(Field(line, 2))
    /\ \A k \in 3..12 : IsFloatText(Field(line, k))

Returned == ipl_pc = "returned" /\ ipl_result.ok

\* The call ended in a panic: there is no Ipl, not even a partial one.
Aborted ==
    /\ ipl_pc = "panicked"
    /\ ~ipl_result.ok
    /\ DOMAIN ipl_result = {"ok", "panic"}

\* C1: when the inst section is present (and closed) and all its data lines
\* are well-formed, Ipl::parse returns one Instance per data line of the
\* section, in file order (an empty section gives an empty list); comment
\* lines and the lines of other sections add no Instance.
C1_OneInstancePerLine ==
    (ipl_pc # "call" /\ HasInst /\ SectionsClosed
        /\ \A k \in 1..Len(InstDataLines) : WellFormed(InstDataLines[k]))
    => /\ Returned
       /\ Len(ipl_result.instances) = Len(InstDataLines)
       /\ \A k \in 1..Len(InstDataLines) :
              ipl_result.instances[k].model_name = Field(InstDataLines[k], 1)

C1_Witness ==
    /\ Returned
    /\ Len(ipl_result.instances) = 2
    /\ ipl_result.instances[1].model_name # ipl_result.instances[2].model_name
    /\ \E i \in 1..Len(data) : data[i] = CommentLine
    /\ \E i \in 1..Len(data) : data[i] = PickTag

\* C2: for every instance line with position fields (a, b, c) and scale
\* fields (d, e, f), the Instance has position (a, c, -b) and scale (d, f, e).
C2_AxisSwap ==
    Returned =>
        /\ Len(ipl_result.instances) = Len(InstDataLines)
        /\ \A k \in 1..Len(InstDataLines) :
               LET f == split_line(InstDataLines[k])
                   i == ipl_result.instances[k]
               IN  /\ i.position = <<FloatOf(f[4]), FloatOf(f[6]), Negated(FloatOf(f[5]))>>
                   /\ i.scale = <<FloatOf(f[7]), FloatOf(f[9]), FloatOf(f[8])>>

C2_Witness ==
    /\ Returned
    /\ Len(ipl_result.instances) >= 1
    /\ InstDataLines[1] = JoinFields(FieldsA)
    /\ ipl_result.instances[1].position =
           <<[neg |-> TRUE, mag |-> 4], [neg |-> FALSE, mag |-> 3], [neg |-> TRUE, mag |-> 12]>>
    /\ ipl_result.instances[1].scale =
           <<[neg |-> FALSE, mag |-> 1], [neg |-> FALSE, mag |-> 5], [neg |-> FALSE, mag |-> 2]>>

\* C4: on a text with no inst section Ipl::parse panics and returns no Ipl,
\* whatever other sections the text holds; the panic is the missing-section
\* one ("no inst") whenever the other sections are closed.
C4_MissingInstPanics ==
    (ipl_pc # "call" /\ ~HasInst) =>
        /\ Aborted
        /\ (SectionsClosed => ipl_result = Panic("no inst"))

C4_Witness ==
    /\ ipl_pc = "panicked"
    /\ ~HasInst
    /\ \E i \in 1..Len(data) : data[i] = CullTag
    /\ ipl_result = Panic("no inst")

\* C5: if any data line of the inst section has fewer than 13 fields,
\* Ipl::parse panics: no Ipl is returned, not even one holding the instances
\* of the well-formed lines before it.
C5_ShortLineAborts ==
    (ipl_pc # "call" /\ HasInst
        /\ \E k \in 1..Len(InstDataLines) : FieldCount(InstDataLines[k]) < 13)
    => Aborted

C5_Witness ==
    /\ Aborted
    /\ HasInst
    /\ SectionsClosed
    /\ Len(InstDataLines) = 2
    /\ WellFormed(InstDataLines[1])
    /\ FieldCount(InstDataLines[2]) = 12

\* A line of 13 fields or more with field k (0-based) not a number.
BadNumberAt(line, k) ==
    /\ FieldCount(line) >= 13
    /\ IF k = 2 THEN ~IsUnsignedText(Field(line, k)) ELSE ~IsFloatText(Field(line, k))

\* C6 as claimed: a numeric field that fails to parse aborts the parse, for
\* every numeric field position, field 0 (the record id) included.
C6_AsClaimed ==
    (ipl_pc # "call" /\ HasInst
        /\ \E n \in 1..Len(InstDataLines) :
               \E k \in {0} \cup 2..12 : BadNumberAt(InstDataLines[n], k))
    => Aborted

\* C6 as the code has it: field 2 (the interior id, an unsigned integer) or
\* any of fields 3..12 failing to parse aborts the parse; field 0 is never
\* parsed, so a line whose record id is no number yields its Instance.
C6_NumericFieldAborts ==
    /\ (ipl_pc # "call" /\ HasInst
           /\ \E n \in 1..Len(InstDataLines) :
                  \E k \in 2..12 : BadNumberAt(InstDataLines[n], k))
       => Aborted
    /\ (ipl_pc # "call" /\ HasInst /\ SectionsClosed
           /\ \A n \in 1..Len(InstDataLines) : WellFormed(InstDataLines[n]))
       => Returned

C6_Witness ==
    /\ Aborted
    /\ HasInst
    /\ SectionsClosed
    /\ Len(InstDataLines) = 1
    /\ InstDataLines[1] = JoinFields(WithField(2, <<"-", "1">>))
    /\ ipl_result = Panic("unwrap")

\* C9: the rotation of every Instance is fields 9, 10, 11, 12 of its line in
\* that order as (x, y, z, w), unchanged.
C9_RotationUnchanged ==
    Returned =>
        /\ Len(ipl_result.instances) = Len(InstDataLines)
        /\ \A k \in 1..Len(InstDataLines) :
               LET f == split_line(InstDataLines[k])
               IN  ipl_result.instances[k].rotation =
                       <<FloatOf(f[10]), FloatOf(f[11]), FloatOf(f[12]), FloatOf(f[13])>>

C9_Witness ==
    /\ Returned
    /\ Len(ipl_result.instances) >= 1
    /\ InstDataLines[1] = JoinFields(FieldsB)
    /\ ipl_result.instances[1].rotation =
           <<[neg |-> FALSE, mag |-> 4], [neg |-> FALSE, mag |-> 3],
             [neg |-> FALSE, mag |-> 2], [neg |-> FALSE, mag |-> 9]>>

(***************************************************************************)
(* Claims about the host systems of main.rs                                *)
(***************************************************************************)

\* The name begins with "lod", compared without regard to ASCII case; the
\* name "lod" itself does.
BeginsWithLod(name) ==
    /\ Len(name) >= 3
    /\ \A k \in 1..3 : ToAsciiLower(name[k]) = LodPrefix[k]

NotLodInstance(i) == ~BeginsWithLod(i.name)

\* The instances of the Ipls of a run's Created events, in event order.
RECURSIVE CreatedInstances(_)
CreatedInstances(events) ==
    IF events = <<>> THEN <<>>
    ELSE (IF Head(events).kind = "Created"
          THEN ipl_assets[Head(events).handle] ELSE <<>>)
             \o CreatedInstances(Tail(events))

\* The unspawned entry for models/gta3/<model_name>.dff at the instance's
\* place.
EntryFor(i) ==
    [handle |-> <<"m", "o", "d", "e", "l", "s", "/", "g", "t", "a", "3", "/">>
                    \o i.name \o <<".", "d", "f", "f">>,
     transform |-> [translation |-> i.pos],
     spawned |-> FALSE]

EntriesFor(instances) == [k \in 1..Len(instances) |-> EntryFor(instances[k])]

\* C8: a run of handle_ipl_events over Created events adds no entry for an
\* instance whose name begins with "lod" (in any case, the name "lod"
\* included) and one unspawned entry for models/gta3/<model_name>.dff for
\* every other instance, in instance order.
C8_AsClaimed ==
    [][handle_ipl_events =>
          desired_asset_meshes' =
              desired_asset_meshes
                  \o EntriesFor(SelectSeq(CreatedInstances(ev_asset), NotLodInstance))]_vars

\* The name is longer than "lod" and begins with it (in any case).
LongerAndBeginsWithLod(name) == Len(name) > 3 /\ BeginsWithLod(name)

NotLongerLodInstance(i) == ~LongerAndBeginsWithLod(i.name)

\* C8 as the code has it: only a name longer than three characters that
\* begins with "lod" is left out; the name "lod" itself is queued as
\* models/gta3/lod.dff.
C8_LongerNamesOnly ==
    [][handle_ipl_events =>
          desired_asset_meshes' =
              desired_asset_meshes
                  \o EntriesFor(SelectSeq(CreatedInstances(ev_asset),
                                          NotLongerLodInstance))]_vars

\* An Ipl holding lod and LODa was handled: LODa left no entry, lod did.
C8_Witness ==
    /\ host_pc = "running"
    /\ ev_asset = <<>>
    /\ \E h \in DOMAIN ipl_assets :
           \E k \in 1..Len(ipl_assets[h]) : ipl_assets[h][k].name = Name_LODa
    /\ \E k \in 1..Len(desired_asset_meshes) :
           desired_asset_meshes[k].handle = ModelPath(Name_lod)
    /\ \A k \in 1..Len(desired_asset_meshes) :
           desired_asset_meshes[k].handle # ModelPath(Name_LODa)

\* The PbrBundles spawned for queue entry k.
SpawnCount(k, cmds) ==
    Cardinality({j \in 1..Len(cmds) :
                    cmds[j].kind = "PbrBundle" /\ cmds[j].entry = k})

\* Longest queue the maps can give.
QueueBound == 3 * MaxMaps

\* One step seen from the queue: entries stay in place with their handle and
\* transform, a set flag stays set, a flag is set only for a loaded asset and
\* together with the one bundle of the entry, an entry whose asset is not
\* loaded is untouched, a new entry is unspawned.
C10_Step ==
    /\ Len(desired_asset_meshes') >= Len(desired_asset_meshes)
    /\ \A k \in 1..Len(desired_asset_meshes) :
           LET old == desired_asset_meshes[k]
               new == desired_asset_meshes'[k]
           IN  /\ new.handle = old.handle
               /\ new.transform = old.transform
               /\ old.spawned => new.spawned
               /\ (~old.spawned /\ new.spawned) => old.handle \in asset_meshes
               /\ old.handle \notin asset_meshes => new = old
    /\ \A k \in (Len(desired_asset_meshes) + 1)..Len(desired_asset_meshes') :
           ~desired_asset_meshes'[k].spawned
    /\ \A k \in 1..Len(desired_asset_meshes') :
           SpawnCount(k, commands') = IF desired_asset_meshes'[k].spawned THEN 1 ELSE 0

\* C10: across runs of process_pending_desired_meshes, handle_ipl_events and
\* asset loads every queue entry is spawned at most once, only when its asset
\* is loaded and its flag unset; the flag is never reset, an entry whose
\* asset is not loaded is unchanged, no entry is removed or reordered; and an
\* entry whose asset is loaded is eventually spawned.
C10_SpawnedOnce ==
    /\ [][C10_Step]_vars
    /\ \A k \in 1..QueueBound :
           (k <= Len(desired_asset_meshes)
               /\ desired_asset_meshes[k].handle \in asset_meshes)
           ~> (k <= Len(desired_asset_meshes) /\ desired_asset_meshes[k].spawned)

C10_Witness ==
    /\ host_pc = "running"
    /\ \E k \in 1..Len(desired_asset_meshes) :
           /\ desired_asset_meshes[k].spawned
           /\ SpawnCount(k, commands) = 1
    /\ \E k \in 1..Len(desired_asset_meshes) :
           /\ ~desired_asset_meshes[k].spawned
           /\ desired_asset_meshes[k].handle \notin asset_meshes
    /\ \E j, k \in 1..Len(desired_asset_meshes) :
           /\ j # k
           /\ desired_asset_meshes[j].handle = desired_asset_meshes[k].handle
           /\ desired_asset_meshes[j].spawned
           /\ desired_asset_meshes[k].spawned

====
